---- MODULE Spec2Model ----
(***************************************************************************)
(* Model of the CondConv CIFAR training driver (baselines/cifar/           *)
(* condconv.py) and of the diabetic-retinopathy utilities                  *)
(* (baselines/diabetic_retinopathy_detection/utils.py).                    *)
(*                                                                         *)
(* The driver is a single procedural loop: per epoch it runs               *)
(* steps_per_epoch train steps, evaluates the selected test sets, writes   *)
(* scalar summaries, resets the metric accumulators and optionally saves   *)
(* a checkpoint.  The driver does not look into its tensors; a metric      *)
(* accumulator is the number of update_state calls it has received, and    *)
(* the result of a loss formulation is the name of the formula selected.   *)
(* A step function is executed statement by statement: an exception stops  *)
(* it where it is raised and everything done before it stays done.         *)
(*                                                                         *)
(* The aggregation arithmetic of _process_3d_logits is modelled on its     *)
(* own, over small tensors of exact fractions (specification SpecLogits).  *)
(***************************************************************************)
EXTENDS Integers, Sequences, FiniteSets, TLC

(***************************************************************************)
(* Bounds of the model.                                                    *)
(***************************************************************************)
MaxTrainEpochs == 2
MaxInterval == 2
MaxIntensity == 2
MaxExperts == 2
MaxSteps == 2
MaxEntries == 3

VARIABLES
  FLAGS,                \* the command-line flags main() reads
  corruption_types,     \* utils.load_corrupted_test_info(...)[0]
  max_intensity,        \* utils.load_corrupted_test_info(...)[1]
  steps_per_epoch,      \* train examples // batch_size
  steps_per_eval,       \* test examples // test_batch_size
  test_datasets,        \* keys of the test_datasets dict, in insertion order
  metrics,              \* metric name -> number of update_state calls
  corrupt_metrics,      \* same for corrupt_metrics (<<>> when never bound)
  iterations,           \* optimizer.iterations
  initial_epoch,
  epoch,
  step,                 \* loop variable of the train / eval inner loop
  datasets_to_evaluate, \* names selected for evaluation in this epoch
  ds_idx,               \* position in datasets_to_evaluate
  pc,                   \* position of main() in the epoch loop
  err,                  \* exception that ended the run, "none" otherwise
  model_output,         \* what the last model(images) call returned
  failed_step,          \* the step function the exception came from
  processing,           \* last return of _process_3d_logits_train
  corrupt_accessed,     \* corrupt_metrics has been read
  summaries,            \* step tags of the tf.summary.scalar batches written
  saves,                \* calls of checkpoint.save, in order
  hist,                 \* what the current epoch has done so far
  call,                 \* the call of a retinopathy utility: name, arguments
  ret,                  \* its return value, once it has returned
  environ,              \* os.environ['CUDA_VISIBLE_DEVICES']
  tpu_system,           \* the TPU cluster connected to / initialised
  tensors,              \* logits, routing_weights and labels of a batch
  processing_results,   \* what _process_3d_logits returned for them
  train_return,         \* what _process_3d_logits_train returned for them
  other_routing_weights,\* routing weights of a second call, same batch
  other_return          \* what _process_3d_logits_train returned for it

mainvars == <<FLAGS, corruption_types, max_intensity, steps_per_epoch,
              steps_per_eval, test_datasets, metrics, corrupt_metrics,
              iterations, initial_epoch, epoch, step, datasets_to_evaluate,
              ds_idx, pc, err, model_output, failed_step, processing,
              corrupt_accessed, summaries, saves, hist>>

utilvars == <<call, ret, environ, tpu_system>>

logitvars == <<tensors, processing_results, train_return,
               other_routing_weights, other_return>>

vars == <<mainvars, utilvars, logitvars>>

(***************************************************************************)
(* Flags.                                                                  *)
(***************************************************************************)
LossEnum == {"gibbs_ce", "unweighted_gibbs_ce", "moe", "unweighted_moe",
             "poe", "unweighted_poe"}

Intervals == {-1} \cup (0..MaxInterval)

FlagValues == [loss : LossEnum,
               use_cond_dense : BOOLEAN,
               reduce_dense_outputs : BOOLEAN,
               use_bfloat16 : BOOLEAN,
               num_experts : {MaxExperts},
               corruptions_interval : Intervals,
               checkpoint_interval : Intervals,
               train_epochs : 0..MaxTrainEpochs]

\* `not FLAGS.reduce_dense_outputs and FLAGS.use_cond_dense`
cond_dense_branch(F) == (~F.reduce_dense_outputs) /\ F.use_cond_dense

(***************************************************************************)
(* Names of the tensorflow module that exist.  The driver calls            *)
(* tf.nn.softmax and tf.softmax; the tensorflow package exports the first  *)
(* only, so evaluating the attribute tf.softmax raises AttributeError.     *)
(***************************************************************************)
tf_exports == {"nn.softmax", "math.reduce_mean", "math.reduce_sum",
               "reduce_mean",
               "expand_dims", "tile", "reshape", "cast",
               "keras.losses.sparse_categorical_crossentropy"}

(***************************************************************************)
(* String formatting of the dataset and metric names.                      *)
(***************************************************************************)
\* '{0}_{1}'.format(corruption, intensity)
dataset_name_of(corruption, intensity) ==
  corruption \o "_" \o ToString(intensity)

\* 'prefix{}'.format(name)
format(prefix, name) == prefix \o name

RECURSIVE Range1(_, _)
\* range(lo, hi + 1) as a sequence
Range1(lo, hi) == IF lo > hi THEN <<>> ELSE <<lo>> \o Range1(lo + 1, hi)

RECURSIVE Flatten(_)
Flatten(ss) == IF ss = <<>> THEN <<>> ELSE Head(ss) \o Flatten(Tail(ss))

SeqRange(s) == {s[i] : i \in 1..Len(s)}

\* the loop of lines 182-190: corruption outer, intensity inner
corrupted_dataset_names(types, maxi) ==
  Flatten([c \in 1..Len(types) |->
             [i \in 1..maxi |-> dataset_name_of(types[c], i)]])

\* test_datasets after lines 171-190
build_test_datasets(F, types, maxi) ==
  <<"clean">> \o (IF F.corruptions_interval > 0
                    THEN corrupted_dataset_names(types, maxi)
                    ELSE <<>>)

(***************************************************************************)
(* Metric registration.                                                    *)
(***************************************************************************)
base_metric_names ==
  {"train/negative_log_likelihood", "train/accuracy", "train/loss",
   "train/ece", "test/negative_log_likelihood", "test/accuracy", "test/ece"}

cond_dense_metric_names ==
  {"test/nll_poe", "test/nll_moe", "test/nll_unweighted_poe",
   "test/nll_unweighted_moe", "test/unweighted_gibbs_ce",
   "test/ece_unweighted_moe", "test/accuracy_unweighted_moe",
   "test/ece_poe", "test/accuracy_poe", "test/ece_unweighted_poe",
   "test/accuracy_unweighted_poe"}

routing_metric_names(n) ==
  {format("test/dense_routing_weight_", ToString(idx)) : idx \in 0..(n - 1)}
  \cup
  {format("test/dense_routing_weight_normalized_", ToString(idx)) :
     idx \in 0..(n - 1)}

\* the metrics dict after lines 234-272 and line 523
metric_names(F) ==
  base_metric_names
  \cup (IF cond_dense_branch(F)
          THEN cond_dense_metric_names \cup routing_metric_names(F.num_experts)
          ELSE {})
  \cup {"test/ms_per_example"}

\* the six metrics lines 279-291 register for one corrupted dataset
corrupt_names_of(dataset_name) ==
  {format("test/nll_", dataset_name),
   format("test/accuracy_", dataset_name),
   format("test/ece_", dataset_name),
   format("test/nll_weighted_moe_", dataset_name),
   format("test/accuracy_weighted_moe_", dataset_name),
   format("test/ece_weighted_moe_", dataset_name)}

\* the keys of corrupt_metrics after lines 274-291
corrupt_metric_names(types, maxi) ==
  UNION {corrupt_names_of(dataset_name_of(types[c], i)) :
           c \in 1..Len(types), i \in 1..maxi}

fresh(names) == [k \in names |-> 0]

(***************************************************************************)
(* metric.update_state through a dict lookup: the lookups are made in      *)
(* order, the first missing key raises KeyError and ends the step.         *)
(***************************************************************************)
RECURSIVE update_state(_, _)
update_state(m, keys) ==
  IF keys = <<>> THEN [m |-> m, err |-> "none"]
  ELSE IF Head(keys) \notin DOMAIN m THEN [m |-> m, err |-> "KeyError"]
  ELSE update_state([m EXCEPT ![Head(keys)] = @ + 1], Tail(keys))

(***************************************************************************)
(* The loss / consensus formulations (tensor values are named, not         *)
(* computed).  A branch that evaluates an attribute the tensorflow module  *)
(* does not export raises AttributeError before it binds probs.            *)
(***************************************************************************)
returns(probs, nll) ==
  [err |-> "none", probs |-> probs, negative_log_likelihood |-> nll]

raises(e) ==
  [err |-> e, probs |-> "undefined", negative_log_likelihood |-> "undefined"]

not_called ==
  [err |-> "none", probs |-> "not_called",
   negative_log_likelihood |-> "not_called"]

\* no batch has been passed to _process_3d_logits
no_tensors == [logits |-> <<>>, routing_weights |-> <<>>, labels |-> <<>>]

not_processed == [called |-> FALSE]

\* evaluate an expression that reads the attributes `attrs` of tf
with_tf(attrs, result) ==
  IF attrs \subseteq tf_exports THEN result ELSE raises("AttributeError")

ce == {"math.reduce_mean", "keras.losses.sparse_categorical_crossentropy"}

process_3d_logits_train_weighted_moe(loss) ==
  CASE loss = "gibbs_ce" ->
         returns("weighted_probs", "weighted_gibbs_ce")
    [] loss = "unweighted_gibbs_ce" ->
         returns("unweighted_probs", "unweighted_gibbs_ce")
    [] loss \in {"moe", "unweighted_moe"} ->
         with_tf(ce, returns("weighted_probs", "ce(weighted_probs)"))
    [] loss = "poe" ->
         with_tf({"softmax"} \cup ce,
                 returns("softmax(weighted_logits)", "ce(weighted_logits)"))
    [] loss = "unweighted_poe" ->
         with_tf({"softmax"} \cup ce,
                 returns("softmax(unweighted_logits)",
                         "ce(unweighted_logits)"))
    [] OTHER -> raises("UnboundLocalError")

process_3d_logits_train(loss) ==
  CASE loss = "gibbs_ce" ->
         returns("weighted_probs", "weighted_gibbs_ce")
    [] loss = "unweighted_gibbs_ce" ->
         returns("unweighted_probs", "unweighted_gibbs_ce")
    [] loss = "moe" ->
         with_tf(ce, returns("weighted_probs", "ce(weighted_probs)"))
    [] loss = "unweighted_moe" ->
         with_tf(ce, returns("unweighted_probs", "ce(unweighted_probs)"))
    [] loss = "poe" ->
         with_tf({"softmax"} \cup ce,
                 returns("softmax(weighted_logits)", "ce(weighted_logits)"))
    [] loss = "unweighted_poe" ->
         with_tf({"softmax"} \cup ce,
                 returns("softmax(unweighted_logits)",
                         "ce(unweighted_logits)"))
    [] OTHER -> raises("UnboundLocalError")

(***************************************************************************)
(* The model call and the bfloat16 cast.  `out` is what model(images)      *)
(* returns: "tuple" for (logits, all_routing_weights), "tensor" otherwise. *)
(* tf.cast is defined on tensors; given the tuple it either fails to       *)
(* convert it or packs it into one tensor (`cast` says which), and in      *)
(* neither case is its result a tuple.                                     *)
(***************************************************************************)
ModelOutputs == {"tuple", "tensor"}
CastOutcomes == {"tensor", "raise"}

tf_cast(out, cast) == IF out = "tensor" THEN "tensor" ELSE cast

model_call(F, out, cast) == IF F.use_bfloat16 THEN tf_cast(out, cast) ELSE out

train_metric_keys ==
  <<"train/ece", "train/loss", "train/negative_log_likelihood",
    "train/accuracy">>

\* train_step.step_fn with the tuple check made after the gradient step
train_step_fn_late_check(F, out, cast, its, m, proc) ==
  LET logits == model_call(F, out, cast)
  IN  IF logits = "raise"
        THEN [err |-> "TypeError", iterations |-> its, metrics |-> m,
              processing |-> proc]
      ELSE IF logits # "tuple"
        THEN [err |-> "ValueError", iterations |-> its + 1, metrics |-> m,
              processing |-> proc]
      ELSE LET u == update_state(m, train_metric_keys)
           IN  [err |-> u.err, iterations |-> its + 1, metrics |-> u.m,
                processing |-> proc]

\* train_step.step_fn, lines 391-427
train_step_fn(F, out, cast, its, m, proc) ==
  LET logits == model_call(F, out, cast)
      same(e) == [err |-> e, iterations |-> its, metrics |-> m,
                  processing |-> proc]
  IN  IF logits = "raise" THEN same("TypeError")
      ELSE IF logits # "tuple" THEN same("ValueError")
      ELSE LET p == IF cond_dense_branch(F)
                      THEN process_3d_logits_train(F.loss)
                      ELSE returns("softmax(logits)", "ce(logits)")
               proc2 == IF cond_dense_branch(F) THEN p ELSE proc
           IN  IF p.err # "none"
                 THEN [err |-> p.err, iterations |-> its, metrics |-> m,
                       processing |-> proc2]
                 ELSE LET u == update_state(m, train_metric_keys)
                      IN  [err |-> u.err, iterations |-> its + 1,
                           metrics |-> u.m, processing |-> proc2]

\* the metric updates of lines 456-489
clean_cond_dense_keys(n) ==
  <<"test/nll_poe", "test/nll_moe", "test/nll_unweighted_poe",
    "test/nll_unweighted_moe", "test/unweighted_gibbs_ce",
    "test/negative_log_likelihood", "test/ece", "test/accuracy",
    "test/ece_unweighted_moe", "test/accuracy_unweighted_moe",
    "test/ece_poe", "test/accuracy_poe", "test/ece_unweighted_poe",
    "test/accuracy_unweighted_poe">>
  \o Flatten([i \in 1..n |->
       <<format("test/dense_routing_weight_", ToString(i - 1)),
         format("test/dense_routing_weight_normalized_", ToString(i - 1))>>])

\* the metric updates of lines 493-496
clean_plain_keys ==
  <<"test/negative_log_likelihood", "test/accuracy", "test/ece">>

\* the corrupt_metrics lookups of lines 500-512
corrupt_cond_dense_keys(dataset_name) ==
  <<format("test/nll_", dataset_name),
    format("test/accuracy_", dataset_name),
    format("test/ece_", dataset_name),
    format("test/nll_weighted_moe", dataset_name),
    format("test/accuracy_weighted_moe_", dataset_name),
    format("test/ece_weighted_moe", dataset_name)>>

\* the corrupt_metrics lookups of lines 514-519
corrupt_plain_keys(dataset_name) ==
  <<format("test/nll_", dataset_name),
    format("test/accuracy_", dataset_name),
    format("test/ece_", dataset_name)>>

\* the keys test_step.step_fn updates for a corrupted dataset
corrupt_keys(F, dataset_name) ==
  IF cond_dense_branch(F) THEN corrupt_cond_dense_keys(dataset_name)
  ELSE corrupt_plain_keys(dataset_name)

\* test_step.step_fn, lines 435-519
test_step_fn(F, out, cast, dataset_name, m, cm) ==
  LET logits == model_call(F, out, cast)
      same(e) == [err |-> e, metrics |-> m, corrupt_metrics |-> cm,
                  accessed |-> FALSE]
  IN  IF logits = "raise" THEN same("TypeError")
      ELSE IF logits # "tuple" THEN same("ValueError")
      ELSE IF dataset_name = "clean"
        THEN LET u == update_state(m, IF cond_dense_branch(F)
                                  THEN clean_cond_dense_keys(F.num_experts)
                                        ELSE clean_plain_keys)
             IN  [err |-> u.err, metrics |-> u.m, corrupt_metrics |-> cm,
                  accessed |-> FALSE]
        ELSE IF ~(F.corruptions_interval > 0)
          THEN [err |-> "NameError", metrics |-> m, corrupt_metrics |-> cm,
                accessed |-> TRUE]
        ELSE LET u == update_state(cm, corrupt_keys(F, dataset_name))
             IN  [err |-> u.err, metrics |-> m, corrupt_metrics |-> u.m,
                  accessed |-> TRUE]

no_call == [fn |-> "none"]

pending == [done |-> FALSE]

no_tpu == [connected |-> "none", initialized |-> "none"]

(***************************************************************************)
(* main(): the state after construction (lines 133-301 and 523-526).       *)
(***************************************************************************)
Ev(ev, ds, tag) == [ev |-> ev, ds |-> ds, tag |-> tag]

\* utils.load_corrupted_test_info: the corruption names of the dataset
CorruptionTypes == <<"gaussian_noise", "fog">>

\* FLAGS.loss is read in the CondDense branch only; elsewhere it keeps its
\* default
FlagsOfRuns ==
  {F \in FlagValues : cond_dense_branch(F) \/ F.loss = "gibbs_ce"}

\* the epoch loop of main() is entered at `for epoch in range(...)`
InitMain ==
  /\ FLAGS \in FlagsOfRuns
  /\ steps_per_epoch \in {1, MaxSteps}
  /\ steps_per_eval \in {1, MaxSteps}
  /\ IF FLAGS.corruptions_interval > 0
       THEN /\ corruption_types = CorruptionTypes
            /\ max_intensity \in {1, MaxIntensity}
       ELSE /\ corruption_types = <<>>
            /\ max_intensity = 0
  /\ test_datasets = build_test_datasets(FLAGS, corruption_types, max_intensity)
  /\ metrics = fresh(metric_names(FLAGS))
  /\ corrupt_metrics =
       IF FLAGS.corruptions_interval > 0
         THEN fresh(corrupt_metric_names(corruption_types, max_intensity))
         ELSE <<>>
  \* a restored checkpoint was saved at an epoch boundary
  /\ iterations \in {k * steps_per_epoch : k \in 0..MaxTrainEpochs}
  /\ initial_epoch = iterations \div steps_per_epoch
  /\ epoch = initial_epoch
  /\ step = 0
  /\ datasets_to_evaluate = <<>>
  /\ ds_idx = 0
  /\ pc = "loop"
  /\ err = "none"
  /\ model_output = "none"
  /\ failed_step = "none"
  /\ processing = not_called
  /\ corrupt_accessed = FALSE
  /\ summaries = <<>>
  /\ saves = <<>>
  /\ hist = <<>>
  /\ call = no_call
  /\ ret = pending
  /\ environ = "unset"
  /\ tpu_system = no_tpu
  /\ tensors = no_tensors
  /\ processing_results = not_processed
  /\ train_return = not_called
  /\ other_routing_weights = <<>>
  /\ other_return = not_called

\* `for epoch in range(initial_epoch, FLAGS.train_epochs)`, line 527
EpochLoop ==
  /\ UNCHANGED <<utilvars, logitvars>>
  /\ pc = "loop"
  /\ pc' = IF epoch < FLAGS.train_epochs THEN "train" ELSE "final"
  /\ step' = 0
  /\ hist' = <<>>
  /\ UNCHANGED <<FLAGS, corruption_types, max_intensity, steps_per_epoch,
                 steps_per_eval, test_datasets, metrics, corrupt_metrics,
                 iterations, initial_epoch, epoch, datasets_to_evaluate,
                 ds_idx, err, processing, summaries, saves, model_output,
                 failed_step, corrupt_accessed>>

\* one iteration of `for step in range(steps_per_epoch)`, lines 529-542
TrainStep ==
  /\ UNCHANGED <<utilvars, logitvars>>
  /\ pc = "train"
  /\ step < steps_per_epoch
  /\ \E out \in ModelOutputs, cast \in CastOutcomes :
       LET r == train_step_fn(FLAGS, out, cast, iterations, metrics,
                              processing)
       IN  /\ iterations' = r.iterations
           /\ metrics' = r.metrics
           /\ processing' = r.processing
           /\ err' = r.err
           /\ model_output' = out
           /\ IF r.err # "none"
                THEN /\ pc' = "raised"
                     /\ failed_step' = "train_step"
                     /\ UNCHANGED <<step, hist>>
                ELSE /\ step' = step + 1
                     /\ UNCHANGED failed_step
                     /\ hist' = Append(hist, Ev("train", "", step))
                     /\ pc' = IF step + 1 = steps_per_epoch
                                THEN "select" ELSE "train"
  /\ UNCHANGED <<FLAGS, corruption_types, max_intensity, steps_per_epoch,
                 steps_per_eval, test_datasets, corrupt_metrics,
                 initial_epoch, epoch, datasets_to_evaluate, ds_idx,
                 corrupt_accessed, summaries, saves>>

\* the corruption schedule tested on the 0-based epoch
corruptions_due_zero_based(F, e) ==
  /\ F.corruptions_interval > 0
  /\ e % F.corruptions_interval = 0

\* `(FLAGS.corruptions_interval > 0 and
\*   (epoch + 1) % FLAGS.corruptions_interval == 0)`
corruptions_due(F, e) ==
  /\ F.corruptions_interval > 0
  /\ (e + 1) % F.corruptions_interval = 0

\* lines 544-547
SelectDatasets ==
  /\ UNCHANGED <<utilvars, logitvars>>
  /\ pc = "select"
  /\ datasets_to_evaluate' = IF corruptions_due(FLAGS, epoch)
                               THEN test_datasets ELSE <<"clean">>
  /\ ds_idx' = 1
  /\ step' = 0
  /\ pc' = "eval"
  /\ UNCHANGED <<FLAGS, corruption_types, max_intensity, steps_per_epoch,
                 steps_per_eval, test_datasets, metrics, corrupt_metrics,
                 iterations, initial_epoch, epoch, err, processing,
                 summaries, saves, hist, model_output, failed_step,
                 corrupt_accessed>>

\* one iteration of `for step in range(steps_per_eval)`, lines 548-559
TestStep ==
  /\ UNCHANGED <<utilvars, logitvars>>
  /\ pc = "eval"
  /\ ds_idx <= Len(datasets_to_evaluate)
  /\ step < steps_per_eval
  /\ \E out \in ModelOutputs, cast \in CastOutcomes :
       LET dataset_name == datasets_to_evaluate[ds_idx]
           r == test_step_fn(FLAGS, out, cast, dataset_name, metrics,
                             corrupt_metrics)
           ms == update_state(r.metrics, <<"test/ms_per_example">>)
           last_step == step + 1 = steps_per_eval
           last_ds == ds_idx = Len(datasets_to_evaluate)
       IN  /\ corrupt_metrics' = r.corrupt_metrics
           /\ corrupt_accessed' = (corrupt_accessed \/ r.accessed)
           /\ model_output' = out
           /\ failed_step' = IF r.err # "none" \/ ms.err # "none"
                                THEN "test_step" ELSE failed_step
           /\ IF r.err # "none"
                THEN /\ err' = r.err
                     /\ metrics' = r.metrics
                     /\ pc' = "raised"
                     /\ UNCHANGED <<step, ds_idx, hist>>
                ELSE /\ err' = ms.err
                     /\ metrics' = ms.m
                     /\ hist' = Append(hist, Ev("test", dataset_name, step))
                     /\ step' = IF last_step THEN 0 ELSE step + 1
                     /\ ds_idx' = IF last_step /\ ~last_ds
                                    THEN ds_idx + 1 ELSE ds_idx
                     /\ pc' = IF ms.err # "none" THEN "raised"
                              ELSE IF last_step /\ last_ds THEN "aggregate"
                              ELSE "eval"
  /\ UNCHANGED <<FLAGS, corruption_types, max_intensity, steps_per_epoch,
                 steps_per_eval, test_datasets, iterations, initial_epoch,
                 epoch, datasets_to_evaluate, processing, summaries, saves>>

\* lines 561-566: utils.aggregate_corrupt_metrics reads corrupt_metrics
AggregateCorrupt ==
  /\ UNCHANGED <<utilvars, logitvars>>
  /\ pc = "aggregate"
  /\ hist' = IF corruptions_due(FLAGS, epoch)
               THEN Append(hist, Ev("aggregate_corrupt_metrics", "", 0))
               ELSE hist
  /\ corrupt_accessed' = (corrupt_accessed \/ corruptions_due(FLAGS, epoch))
  /\ pc' = "summaries"
  /\ UNCHANGED <<FLAGS, corruption_types, max_intensity, steps_per_epoch,
                 steps_per_eval, test_datasets, metrics, corrupt_metrics,
                 iterations, initial_epoch, epoch, step,
                 datasets_to_evaluate, ds_idx, err, processing, summaries,
                 saves, model_output, failed_step>>

\* summaries tagged with the 0-based epoch
summary_step_zero_based(e) == e

\* the step tag of `tf.summary.scalar(name, result, step=epoch + 1)`
summary_step(e) == e + 1

\* lines 568-578
WriteSummaries ==
  /\ UNCHANGED <<utilvars, logitvars>>
  /\ pc = "summaries"
  /\ summaries' = Append(summaries, summary_step(epoch))
  /\ hist' = Append(hist, Ev("summaries", "", summary_step(epoch)))
  /\ pc' = "reset"
  /\ UNCHANGED <<FLAGS, corruption_types, max_intensity, steps_per_epoch,
                 steps_per_eval, test_datasets, metrics, corrupt_metrics,
                 iterations, initial_epoch, epoch, step,
                 datasets_to_evaluate, ds_idx, err, processing, saves,
                 model_output, failed_step, corrupt_accessed>>

\* lines 580-581
ResetMetrics ==
  /\ UNCHANGED <<utilvars, logitvars>>
  /\ pc = "reset"
  /\ metrics' = fresh(DOMAIN metrics)
  /\ hist' = Append(hist, Ev("reset_states", "", 0))
  /\ pc' = "checkpoint"
  /\ UNCHANGED <<FLAGS, corruption_types, max_intensity, steps_per_epoch,
                 steps_per_eval, test_datasets, corrupt_metrics, iterations,
                 initial_epoch, epoch, step, datasets_to_evaluate, ds_idx,
                 err, processing, summaries, saves, model_output, failed_step,
                 corrupt_accessed>>

\* the checkpoint schedule tested on the 0-based epoch
checkpoint_due_zero_based(F, e) ==
  /\ F.checkpoint_interval > 0
  /\ e % F.checkpoint_interval = 0

\* `(FLAGS.checkpoint_interval > 0 and
\*   (epoch + 1) % FLAGS.checkpoint_interval == 0)`
checkpoint_due(F, e) ==
  /\ F.checkpoint_interval > 0
  /\ (e + 1) % F.checkpoint_interval = 0

\* lines 583-587, then the loop takes the next epoch
PeriodicCheckpoint ==
  /\ UNCHANGED <<utilvars, logitvars>>
  /\ pc = "checkpoint"
  /\ IF checkpoint_due(FLAGS, epoch)
       THEN /\ saves' = Append(saves, Ev("periodic", "", epoch + 1))
            /\ hist' = Append(hist, Ev("checkpoint.save", "", epoch + 1))
       ELSE UNCHANGED <<saves, hist>>
  /\ epoch' = epoch + 1
  /\ pc' = "loop"
  /\ UNCHANGED <<FLAGS, corruption_types, max_intensity, steps_per_epoch,
                 steps_per_eval, test_datasets, metrics, corrupt_metrics,
                 iterations, initial_epoch, step, datasets_to_evaluate,
                 ds_idx, err, processing, summaries, model_output, failed_step,
                 corrupt_accessed>>

\* lines 588-590, after the loop
FinalCheckpoint ==
  /\ UNCHANGED <<utilvars, logitvars>>
  /\ pc = "final"
  /\ saves' = Append(saves, Ev("final", "", epoch))
  /\ pc' = "done"
  /\ UNCHANGED <<FLAGS, corruption_types, max_intensity, steps_per_epoch,
                 steps_per_eval, test_datasets, metrics, corrupt_metrics,
                 iterations, initial_epoch, epoch, step,
                 datasets_to_evaluate, ds_idx, err, processing, summaries,
                 hist, model_output, failed_step, corrupt_accessed>>

NextMain ==
  \/ EpochLoop
  \/ TrainStep
  \/ SelectDatasets
  \/ TestStep
  \/ AggregateCorrupt
  \/ WriteSummaries
  \/ ResetMetrics
  \/ PeriodicCheckpoint
  \/ FinalCheckpoint

Spec == InitMain /\ [][NextMain]_vars

TypeOK ==
  /\ pc \in {"loop", "train", "select", "eval", "aggregate", "summaries",
             "reset", "checkpoint", "final", "done", "raised"}
  /\ err \in {"none", "ValueError", "TypeError", "AttributeError",
              "KeyError", "NameError", "UnboundLocalError"}
  /\ (pc = "raised") <=> (err # "none")
  /\ (pc = "raised") <=> (failed_step # "none")
  /\ model_output \in ModelOutputs \cup {"none"}

(***************************************************************************)
(* Properties of the training driver.                                      *)
(***************************************************************************)

\* C1: for each of the six values of --loss, _process_3d_logits_train
\* selects a formulation and returns a defined (probs,
\* negative_log_likelihood) pair; no value raises or leaves a result
\* undefined.
C1_EveryLossReturnsDefinedPair ==
  /\ processing.err = "none"
  /\ processing.probs # "undefined"
  /\ processing.negative_log_likelihood # "undefined"

\* C2: every metric key an evaluation step of a corrupted dataset updates
\* is registered in corrupt_metrics, so no such step fails on a missing
\* metric.
C2_CorruptKeysRegistered ==
  /\ \A i \in 1..Len(datasets_to_evaluate) :
       datasets_to_evaluate[i] # "clean" =>
         SeqRange(corrupt_keys(FLAGS, datasets_to_evaluate[i]))
           \subseteq DOMAIN corrupt_metrics
  /\ err # "KeyError"

\* C3: a train or test step whose model output is not a tuple raises
\* ValueError, applies no gradient and updates no metric accumulator.
C3_NonTupleRaisesAndChangesNothing ==
  [][(model_output' = "tensor" /\ model_output # "tensor") =>
       /\ pc' = "raised"
       /\ err' = "ValueError"
       /\ failed_step' \in {"train_step", "test_step"}
       /\ iterations' = iterations
       /\ metrics' = metrics
       /\ corrupt_metrics' = corrupt_metrics]_vars

\* a test step failed on a non-tuple output after train and test steps
\* that had applied gradients and updated metrics
C3_Witness ==
  /\ pc = "raised"
  /\ err = "ValueError"
  /\ failed_step = "test_step"
  /\ model_output = "tensor"
  /\ iterations > initial_epoch * steps_per_epoch
  /\ metrics["train/loss"] > 0
  /\ metrics["test/accuracy"] > 0

\* C4: with checkpoint_interval = -1, checkpoint.save is called zero times
\* over a whole run of main.
C4_NoSaveWithoutInterval ==
  FLAGS.checkpoint_interval = -1 => saves = <<>>


HasEv(h, ev) == \E i \in 1..Len(h) : h[i].ev = ev

\* the datasets the test steps of this epoch have run on
Tested(h) == {h[i].ds : i \in {j \in 1..Len(h) : h[j].ev = "test"}}

\* 1-based number of the epoch hist belongs to
EpochNo == IF pc = "loop" THEN epoch ELSE epoch + 1

\* the epoch is past its evaluation phase / past its aggregation
EvalDone ==
  \/ pc \in {"aggregate", "summaries", "reset", "checkpoint"}
  \/ pc = "loop" /\ hist # <<>>

AggregationDone ==
  \/ pc \in {"summaries", "reset", "checkpoint"}
  \/ pc = "loop" /\ hist # <<>>

PeriodicSaves == {i \in 1..Len(saves) : saves[i].ev = "periodic"}

\* C5: with checkpoint_interval = k > 0 a periodic checkpoint is saved at
\* the end of epoch e (1-based) exactly when e mod k = 0, and each such save
\* comes after that epoch's summaries were written and the metrics reset.
C5_PeriodicCheckpointSchedule ==
  FLAGS.checkpoint_interval > 0 =>
    LET k == FLAGS.checkpoint_interval
    IN  /\ {saves[i].tag : i \in PeriodicSaves}
             = {e \in (initial_epoch + 1)..epoch : e % k = 0}
        /\ \A i, j \in PeriodicSaves : saves[i].tag = saves[j].tag => i = j
        /\ (pc = "loop" /\ hist # <<>>) =>
             (HasEv(hist, "checkpoint.save") <=> epoch % k = 0)
        /\ \A i \in 1..Len(hist) :
             hist[i].ev = "checkpoint.save" =>
               /\ i = Len(hist)
               /\ hist[i].tag = epoch
               /\ \E j, l \in 1..Len(hist) :
                    /\ j < l /\ l < i
                    /\ hist[j] = Ev("summaries", "", hist[i].tag)
                    /\ hist[l].ev = "reset_states"
               /\ \A name \in DOMAIN metrics : metrics[name] = 0

\* epoch 1 ended without a save and epoch 2 with one, interval 2
C5_Witness ==
  /\ pc = "loop"
  /\ FLAGS.checkpoint_interval = 2
  /\ initial_epoch = 0
  /\ epoch = 2
  /\ HasEv(hist, "checkpoint.save")
  /\ Len(summaries) = 2
  /\ Len(saves) = 1

IsPrefix(p, q) == Len(p) <= Len(q) /\ SubSeq(q, 1, Len(p)) = p

NotAggregate(e) == e.ev # "aggregate_corrupt_metrics"

\* steps_per_epoch train steps
TrainPhase == [i \in 1..steps_per_epoch |-> Ev("train", "", i - 1)]

\* steps_per_eval test steps for each selected dataset, in order
TestPhase ==
  Flatten([d \in 1..Len(datasets_to_evaluate) |->
             [j \in 1..steps_per_eval |->
                Ev("test", datasets_to_evaluate[d], j - 1)]])

\* C7: in every epoch the phases occur in a fixed order: exactly
\* steps_per_epoch train steps, then exactly steps_per_eval test steps for
\* each dataset selected for evaluation, then exactly one write of scalar
\* summaries tagged epoch + 1, then the metric reset, then the optional
\* checkpoint; no train step of epoch e+1 starts before the summaries of
\* epoch e are written.
C7_EpochPhaseOrder ==
  LET core == SelectSeq(hist, NotAggregate)
      written == Ev("summaries", "", EpochNo)
      reset == Ev("reset_states", "", 0)
      save == Ev("checkpoint.save", "", EpochNo)
      evaluated == TrainPhase \o TestPhase
      full == evaluated \o <<written, reset>>
  IN  /\ pc = "train" => (core = SubSeq(TrainPhase, 1, step)
                          /\ step < steps_per_epoch)
      /\ pc = "select" => core = TrainPhase
      /\ pc = "eval" => (IsPrefix(core, evaluated) /\ core # evaluated
                         /\ IsPrefix(TrainPhase, core))
      /\ pc = "raised" => (\/ IsPrefix(core, TrainPhase) /\ core # TrainPhase
                           \/ IsPrefix(core, evaluated) /\ core # evaluated)
      /\ pc \in {"aggregate", "summaries"} => core = evaluated
      /\ pc = "reset" => core = evaluated \o <<written>>
      /\ pc = "checkpoint" => core = full
      /\ (pc = "loop" /\ hist # <<>>) =>
           (core = full \/ core = full \o <<save>>)
      /\ pc \in {"final", "done"} => hist = <<>>
      /\ summaries = Range1(initial_epoch + 1,
                            IF pc \in {"reset", "checkpoint"}
                              THEN epoch + 1 ELSE epoch)

\* the second epoch of a run ended: clean and corrupted sets evaluated,
\* summaries written, metrics reset, checkpoint saved
C7_Witness ==
  /\ pc = "loop"
  /\ Len(summaries) = 2
  /\ Len(datasets_to_evaluate) > 2
  /\ steps_per_epoch = MaxSteps
  /\ steps_per_eval = MaxSteps
  /\ HasEv(hist, "aggregate_corrupt_metrics")
  /\ HasEv(hist, "checkpoint.save")

(***************************************************************************)
(* diabetic_retinopathy_detection/utils.py                                 *)
(*                                                                         *)
(* Strings whose content the code inspects (directory names, paths) are    *)
(* sequences of one-character strings.                                     *)
(***************************************************************************)

\* init_distribution_strategy that takes the accelerator choice from
\* use_gpu alone
init_strategy_gpu_only(force_use_cpu, use_gpu, tpu_name, env, tpu) ==
  LET env2 == IF force_use_cpu THEN "-1" ELSE env
  IN  IF use_gpu
        THEN [strategy |-> "MirroredStrategy", resolver |-> "none",
              environ |-> env2, tpu_system |-> tpu]
        ELSE [strategy |-> "TPUStrategy", resolver |-> tpu_name,
              environ |-> env2,
              tpu_system |-> [connected |-> tpu_name,
                              initialized |-> tpu_name]]

\* init_distribution_strategy, lines 32-58.  Returns the strategy and the
\* effects of the call on the process environment and on the TPU system.
init_distribution_strategy(force_use_cpu, use_gpu, tpu_name, env, tpu) ==
  LET env2 == IF force_use_cpu THEN "-1" ELSE env
  IN  IF force_use_cpu \/ use_gpu
        THEN [strategy |-> "MirroredStrategy", resolver |-> "none",
              environ |-> env2, tpu_system |-> tpu]
        ELSE [strategy |-> "TPUStrategy", resolver |-> tpu_name,
              environ |-> env2,
              tpu_system |-> [connected |-> tpu_name,
                              initialized |-> tpu_name]]

\* get_diabetic_retinopathy_base_metrics with the TPU test inverted
get_diabetic_retinopathy_base_metrics_swapped(use_tpu, num_bins) ==
  LET base == [k \in {"train/negative_log_likelihood", "train/loss",
                      "test/negative_log_likelihood"} |-> "Mean"]
              @@ [k \in {"train/accuracy", "test/accuracy"} |->
                    "BinaryAccuracy"]
  IN  IF ~use_tpu
        THEN [k \in {"train/auc", "test/auc"} |-> "AUC"] @@ base
        ELSE [k \in {"train/ece", "test/ece"} |->
                "ExpectedCalibrationError"] @@ base

\* get_diabetic_retinopathy_base_metrics, lines 88-127: name -> metric class
get_diabetic_retinopathy_base_metrics(use_tpu, num_bins) ==
  LET base == [k \in {"train/negative_log_likelihood", "train/loss",
                      "test/negative_log_likelihood"} |-> "Mean"]
              @@ [k \in {"train/accuracy", "test/accuracy"} |->
                    "BinaryAccuracy"]
  IN  IF use_tpu
        THEN [k \in {"train/auc", "test/auc"} |-> "AUC"] @@ base
        ELSE [k \in {"train/ece", "test/ece"} |->
                "ExpectedCalibrationError"] @@ base

keras_model == <<"k", "e", "r", "a", "s", "_", "m", "o", "d", "e", "l">>

\* Python `needle in hay` on strings
contains(needle, hay) ==
  \E i \in 0..(Len(hay) - Len(needle)) :
    SubSeq(hay, i + 1, i + Len(needle)) = needle

\* is_keras_model_dir, line 203
is_keras_model_dir(dir_name) == contains(keras_model, dir_name)

\* os.path.join(a, b) of posixpath
os_path_join(a, b) ==
  IF b # <<>> /\ Head(b) = "/" THEN b
  ELSE IF a = <<>> \/ a[Len(a)] = "/" THEN a \o b
  ELSE a \o <<"/">> \o b

\* tf.io.gfile.isdir(path) in a file system where checkpoint_dir lists
\* `listing`, a sequence of [name, isdir]
gfile_isdir(checkpoint_dir, listing, path) ==
  \E i \in 1..Len(listing) :
    /\ os_path_join(checkpoint_dir, listing[i].name) = path
    /\ listing[i].isdir

RECURSIVE parse_keras_models_loop_no_isdir(_, _, _, _)
\* the loop without the isdir test
parse_keras_models_loop_no_isdir(checkpoint_dir, listing, rest, paths) ==
  IF rest = <<>> THEN paths
  ELSE LET dir_name == Head(rest).name
           dir_path == os_path_join(checkpoint_dir, dir_name)
       IN  parse_keras_models_loop_no_isdir(
             checkpoint_dir, listing, Tail(rest),
             IF is_keras_model_dir(dir_name)
               THEN Append(paths, dir_path) ELSE paths)

RECURSIVE parse_keras_models_loop(_, _, _, _)
\* the loop of lines 204-207 over the rest of the listing
parse_keras_models_loop(checkpoint_dir, listing, rest, paths) ==
  IF rest = <<>> THEN paths
  ELSE LET dir_name == Head(rest).name
           dir_path == os_path_join(checkpoint_dir, dir_name)
       IN  parse_keras_models_loop(
             checkpoint_dir, listing, Tail(rest),
             IF gfile_isdir(checkpoint_dir, listing, dir_path)
                /\ is_keras_model_dir(dir_name)
               THEN Append(paths, dir_path) ELSE paths)

\* parse_keras_models that keeps every entry named like a model
parse_keras_models_no_isdir(checkpoint_dir, listing) ==
  parse_keras_models_loop_no_isdir(checkpoint_dir, listing, listing, <<>>)

\* parse_keras_models, lines 192-209
parse_keras_models(checkpoint_dir, listing) ==
  parse_keras_models_loop(checkpoint_dir, listing, listing, <<>>)

(***************************************************************************)
(* Inputs of the utilities.                                                *)
(***************************************************************************)
TpuNames == {"None", "local", "grpc://10.0.0.2:8470"}

NumBins == {1, 15}

DirNames ==
  { keras_model,
    keras_model \o <<"_", "1">>,
    <<"m", "y", "_">> \o keras_model,
    <<"k", "e", "r", "a", "s", "_", "m", "o", "d", "e">>,
    <<"k", "e", "r", "a", "s", "-", "m", "o", "d", "e", "l">>,
    <<"c", "h", "e", "c", "k", "p", "o", "i", "n", "t">> }

CheckpointDirs == { <<"/", "t", "m", "p">>, <<"o", "u", "t", "/">> }

Entries == [name : DirNames, isdir : BOOLEAN]

\* directory listings: at most MaxEntries entries, no name twice
Listings ==
  UNION { { l \in [1..n -> Entries] :
              \A i, j \in 1..n : i # j => l[i].name # l[j].name } :
          n \in 0..MaxEntries }

\* the calls the utilities are given
Calls ==
  [fn : {"init_distribution_strategy"}, force_use_cpu : BOOLEAN,
   use_gpu : BOOLEAN, tpu_name : TpuNames]
  \cup
  [fn : {"get_diabetic_retinopathy_base_metrics"}, use_tpu : BOOLEAN,
   num_bins : NumBins]
  \cup
  [fn : {"parse_keras_models"}, checkpoint_dir : CheckpointDirs,
   listing : Listings]

InitUtils ==
  /\ call \in Calls
  /\ ret = pending
  /\ environ \in {"unset", "0"}
  /\ tpu_system = no_tpu
  /\ FLAGS = [loss |-> "gibbs_ce"]
  /\ corruption_types = <<>>
  /\ max_intensity = 0
  /\ steps_per_epoch = 1
  /\ steps_per_eval = 1
  /\ test_datasets = <<>>
  /\ metrics = <<>>
  /\ corrupt_metrics = <<>>
  /\ iterations = 0
  /\ initial_epoch = 0
  /\ epoch = 0
  /\ step = 0
  /\ datasets_to_evaluate = <<>>
  /\ ds_idx = 0
  /\ pc = "utils"
  /\ err = "none"
  /\ model_output = "none"
  /\ failed_step = "none"
  /\ processing = not_called
  /\ corrupt_accessed = FALSE
  /\ summaries = <<>>
  /\ saves = <<>>
  /\ hist = <<>>
  /\ tensors = no_tensors
  /\ processing_results = not_processed
  /\ train_return = not_called
  /\ other_routing_weights = <<>>
  /\ other_return = not_called

InitDistributionStrategy ==
  /\ ~ret.done
  /\ call.fn = "init_distribution_strategy"
  /\ LET r == init_distribution_strategy(call.force_use_cpu, call.use_gpu,
                                         call.tpu_name, environ, tpu_system)
     IN  /\ ret' = [done |-> TRUE,
                    value |-> [strategy |-> r.strategy,
                               resolver |-> r.resolver]]
         /\ environ' = r.environ
         /\ tpu_system' = r.tpu_system
  /\ UNCHANGED call
  /\ UNCHANGED <<mainvars, logitvars>>

GetBaseMetrics ==
  /\ ~ret.done
  /\ call.fn = "get_diabetic_retinopathy_base_metrics"
  /\ ret' = [done |-> TRUE,
             value |-> get_diabetic_retinopathy_base_metrics(call.use_tpu,
                                                             call.num_bins)]
  /\ UNCHANGED <<call, environ, tpu_system>>
  /\ UNCHANGED <<mainvars, logitvars>>

ParseKerasModels ==
  /\ ~ret.done
  /\ call.fn = "parse_keras_models"
  /\ ret' = [done |-> TRUE,
             value |-> parse_keras_models(call.checkpoint_dir, call.listing)]
  /\ UNCHANGED <<call, environ, tpu_system>>
  /\ UNCHANGED <<mainvars, logitvars>>

NextUtils ==
  \/ InitDistributionStrategy
  \/ GetBaseMetrics
  \/ ParseKerasModels

SpecUtils == InitUtils /\ [][NextUtils]_vars

(***************************************************************************)
(* Properties of the utilities.                                            *)
(***************************************************************************)
Returned(fn) == call.fn = fn /\ ret.done

\* C8: get_diabetic_retinopathy_base_metrics always returns the five base
\* keys; it also has train/auc and test/auc exactly when use_tpu is true and
\* train/ece and test/ece exactly when use_tpu is false; AUC and ECE are
\* never both present and never both absent.
C8_BaseMetricKeys ==
  Returned("get_diabetic_retinopathy_base_metrics") =>
    LET keys == DOMAIN ret.value
        base == {"train/negative_log_likelihood", "train/accuracy",
                 "train/loss", "test/negative_log_likelihood",
                 "test/accuracy"}
        auc == {"train/auc", "test/auc"}
        ece == {"train/ece", "test/ece"}
    IN  /\ base \subseteq keys
        /\ keys \subseteq base \cup auc \cup ece
        /\ IF call.use_tpu
             THEN auc \subseteq keys /\ keys \cap ece = {}
             ELSE ece \subseteq keys /\ keys \cap auc = {}

C8_Witness ==
  /\ Returned("get_diabetic_retinopathy_base_metrics")
  /\ call.use_tpu
  /\ "train/auc" \in DOMAIN ret.value

\* C9: init_distribution_strategy returns a MirroredStrategy exactly when
\* force_use_cpu or use_gpu is true, and otherwise connects to and
\* initialises the TPU named tpu_name and returns a TPUStrategy; with
\* force_use_cpu the CPU path is taken whatever use_gpu and tpu_name are.
C9_StrategySelection ==
  Returned("init_distribution_strategy") =>
    /\ (ret.value.strategy = "MirroredStrategy")
         <=> (call.force_use_cpu \/ call.use_gpu)
    /\ ret.value.strategy \in {"MirroredStrategy", "TPUStrategy"}
    /\ ret.value.strategy = "TPUStrategy" =>
         /\ ret.value.resolver = call.tpu_name
         /\ tpu_system = [connected |-> call.tpu_name,
                          initialized |-> call.tpu_name]
    /\ ret.value.strategy = "MirroredStrategy" => tpu_system = no_tpu
    /\ call.force_use_cpu =>
         /\ ret.value.strategy = "MirroredStrategy"
         /\ environ = "-1"

\* the CPU is forced although no GPU is asked for and a TPU is named
C9_Witness ==
  /\ Returned("init_distribution_strategy")
  /\ call.force_use_cpu
  /\ ~call.use_gpu
  /\ call.tpu_name = "local"
  /\ ret.value.strategy = "MirroredStrategy"

\* C10: parse_keras_models returns exactly the paths
\* join(checkpoint_dir, name) of the listed entries that are directories and
\* whose name contains 'keras_model', each once and in listing order.
C10_KerasModelPaths ==
  Returned("parse_keras_models") =>
    LET listing == call.listing
        kept == {i \in 1..Len(listing) :
                   /\ listing[i].isdir
                   /\ contains(keras_model, listing[i].name)}
        paths == ret.value
    IN  /\ Len(paths) = Cardinality(kept)
        /\ \A p \in 1..Len(paths) :
             \E i \in kept :
               /\ paths[p] = call.checkpoint_dir
                               \o (IF call.checkpoint_dir[
                                        Len(call.checkpoint_dir)] = "/"
                                     THEN <<>> ELSE <<"/">>)
                               \o listing[i].name
               \* as many kept entries precede i as paths precede p
               /\ Cardinality({j \in kept : j < i}) = p - 1
        /\ \A p, q \in 1..Len(paths) : p # q => paths[p] # paths[q]

\* a listing with a model directory, a plain file named like a model and a
\* directory that is not a model
C10_Witness ==
  /\ Returned("parse_keras_models")
  /\ Len(ret.value) = 1
  /\ Len(call.listing) = 3
  /\ \E i \in 1..3 : /\ ~call.listing[i].isdir
                     /\ contains(keras_model, call.listing[i].name)
  /\ \E i \in 1..3 : /\ call.listing[i].isdir
                     /\ ~contains(keras_model, call.listing[i].name)

(***************************************************************************)
(* The aggregation arithmetic of _process_3d_logits, lines 303-327.        *)
(*                                                                         *)
(* A tensor is a nested sequence: logits[b][e][c] over the batch, the      *)
(* experts and the classes, routing_weights[b][e], labels[b] (a class      *)
(* index counted from 0).  A number is an exact non-negative fraction in   *)
(* lowest terms.  Logits are whole multiples of ln 2 and are written in    *)
(* that unit, so the exponential of a logit is a power of two and a        *)
(* softmax is an exact fraction; a cross-entropy from logits is written    *)
(* in the same unit, to three decimals.                                    *)
(***************************************************************************)
RECURSIVE gcd(_, _)
gcd(a, b) == IF b = 0 THEN a ELSE gcd(b, a % b)

frac(n, d) == LET g == gcd(n, d) IN [num |-> n \div g, den |-> d \div g]

whole(k) == frac(k, 1)

times(x, y) == frac(x.num * y.num, x.den * y.den)

plus(x, y) == frac(x.num * y.den + y.num * x.den, x.den * y.den)

RECURSIVE sum_of(_)
sum_of(xs) == IF xs = <<>> THEN whole(0) ELSE plus(Head(xs), sum_of(Tail(xs)))

reduce_sum_averaging(xs) == times(frac(1, Len(xs)), sum_of(xs))

\* tf.math.reduce_sum of a vector
reduce_sum(xs) == sum_of(xs)

\* tf.math.reduce_mean of a vector
reduce_mean(xs) == times(frac(1, Len(xs)), sum_of(xs))

\* the values along axis 1 of a [batch, experts, classes] tensor
expert_axis(x, b, c) == [e \in 1..Len(x[b]) |-> x[b][e][c]]

\* tf.math.reduce_mean(x, axis=1)
reduce_mean_axis1(x) ==
  [b \in 1..Len(x) |->
     [c \in 1..Len(x[b][1]) |-> reduce_mean(expert_axis(x, b, c))]]

\* tf.math.reduce_sum(x, axis=1)
reduce_sum_axis1(x) ==
  [b \in 1..Len(x) |->
     [c \in 1..Len(x[b][1]) |-> reduce_sum(expert_axis(x, b, c))]]

\* 1000 * log2(n), rounded
log2_milli(n) ==
  CASE n = 1 -> 0
    [] n = 2 -> 1000
    [] n = 3 -> 1585
    [] n = 4 -> 2000
    [] n = 5 -> 2322
    [] n = 6 -> 2585
    [] n = 7 -> 2807
    [] n = 8 -> 3000

\* exp of each logit of a row, the logit being a multiple of ln 2
exp_of(row) == [c \in 1..Len(row) |-> whole(2 ^ row[c])]

\* tf.nn.softmax over the last axis
softmax(row) ==
  LET total == sum_of(exp_of(row))
  IN  [c \in 1..Len(row) |-> frac(exp_of(row)[c].num, total.num)]

\* sparse_categorical_crossentropy(label, row, from_logits=True) of one
\* row: log(sum(exp(row))) - row[label]
sparse_categorical_crossentropy(label, row) ==
  frac(log2_milli(sum_of(exp_of(row)).num) - 1000 * row[label + 1], 1000)

process_3d_logits(logits, routing_weights, labels) ==
  LET batch == 1..Len(logits)
      \* routing_weights_3d * x, the weight broadcast over the classes
      weighted(x) ==
        [b \in batch |->
           [e \in 1..Len(x[b]) |->
              [c \in 1..Len(x[b][e]) |->
                 times(routing_weights[b][e], x[b][e][c])]]]
      logit_values ==
        [b \in batch |->
           [e \in 1..Len(logits[b]) |->
              [c \in 1..Len(logits[b][e]) |-> whole(logits[b][e][c])]]]
      probs ==
        [b \in batch |->
           [e \in 1..Len(logits[b]) |-> softmax(logits[b][e])]]
      labels_broadcasted ==
        [b \in batch |-> [e \in 1..FLAGS.num_experts |-> labels[b]]]
      neg_log_likelihoods ==
        [b \in batch |->
           [e \in 1..Len(labels_broadcasted[b]) |->
              sparse_categorical_crossentropy(labels_broadcasted[b][e],
                                              logits[b][e])]]
  IN  [weighted_logits |-> reduce_mean_axis1(weighted(logit_values)),
       unweighted_logits |-> reduce_mean_axis1(logit_values),
       unweighted_probs |-> reduce_mean_axis1(probs),
       weighted_probs |-> reduce_sum_axis1(weighted(probs)),
       neg_log_likelihoods |-> neg_log_likelihoods,
       unweighted_gibbs_ce |-> reduce_mean(Flatten(neg_log_likelihoods)),
       weighted_gibbs_ce |->
         reduce_mean(
           [b \in batch |->
              reduce_sum([e \in 1..Len(neg_log_likelihoods[b]) |->
                            times(routing_weights[b][e],
                                  neg_log_likelihoods[b][e])])])]

\* tf.math.reduce_mean(sparse_categorical_crossentropy(labels, y_pred,
\* from_logits)) of lines 339-356: a function of its arguments, left
\* unevaluated
mean_cross_entropy(labels, y_pred, from_logits) ==
  [fn |-> "reduce_mean(sparse_categorical_crossentropy)",
   y_true |-> labels, y_pred |-> y_pred, from_logits |-> from_logits]

\* the value of an expression that _process_3d_logits_train returns
value_of(expr, results, labels) ==
  CASE expr \in {"weighted_probs", "unweighted_probs", "weighted_gibbs_ce",
                 "unweighted_gibbs_ce"} -> results[expr]
    [] expr = "ce(weighted_probs)" ->
         mean_cross_entropy(labels, results.weighted_probs, FALSE)
    [] expr = "ce(unweighted_probs)" ->
         mean_cross_entropy(labels, results.unweighted_probs, FALSE)
    [] expr = "ce(weighted_logits)" ->
         mean_cross_entropy(labels, results.weighted_logits, TRUE)
    [] expr = "ce(unweighted_logits)" ->
         mean_cross_entropy(labels, results.unweighted_logits, TRUE)
    [] expr = "softmax(weighted_logits)" ->
         [fn |-> "softmax", logits |-> results.weighted_logits]
    [] expr = "softmax(unweighted_logits)" ->
         [fn |-> "softmax", logits |-> results.unweighted_logits]

\* lines 331-358 of _process_3d_logits_train: the formulas selected by
\* --loss, evaluated on processing_results
selected_values(loss, results, labels) ==
  LET selected == process_3d_logits_train(loss)
  IN  IF selected.err # "none"
        THEN selected
        ELSE returns(value_of(selected.probs, results, labels),
                     value_of(selected.negative_log_likelihood, results,
                              labels))

\* _process_3d_logits_train on a batch
process_3d_logits_train_values(loss, logits, routing_weights, labels) ==
  selected_values(loss, process_3d_logits(logits, routing_weights, labels),
                  labels)

(***************************************************************************)
(* The batches the arithmetic is run on.                                   *)
(***************************************************************************)
BatchSizes == {1, 2}

ExpertCounts == {2}

Classes == {0, 1}

LogitValues == {0, 1}

\* the logits of one expert for one example: the expert prefers one class
LogitRows ==
  {row \in [1..Cardinality(Classes) -> LogitValues] : row[1] # row[2]}

\* the routing weights of one example: uniform, one-hot, not normalised
WeightRows(n) ==
  {[e \in 1..n |-> frac(1, n)],
   [e \in 1..n |-> IF e = 1 THEN whole(1) ELSE whole(0)],
   [e \in 1..n |-> IF e = 1 THEN frac(1, 2) ELSE whole(1)]}

RoutingWeights(size, n) == [1..size -> WeightRows(n)]

\* routing weights of a second call: the same row for every example
OtherRoutingWeights(size, n) ==
  {[b \in 1..size |-> row] : row \in WeightRows(n)}

\* the batches of `size` examples for n experts
Batches(size, n) ==
  [logits : [1..size -> [1..n -> LogitRows]],
   routing_weights : RoutingWeights(size, n),
   labels : [1..size -> Classes]]

InitLogits ==
  /\ FLAGS \in [loss : LossEnum, num_experts : ExpertCounts]
  /\ \E size \in BatchSizes : tensors \in Batches(size, FLAGS.num_experts)
  /\ processing_results = not_processed
  /\ train_return = not_called
  /\ other_routing_weights = <<>>
  /\ other_return = not_called
  /\ corruption_types = <<>>
  /\ max_intensity = 0
  /\ steps_per_epoch = 1
  /\ steps_per_eval = 1
  /\ test_datasets = <<>>
  /\ metrics = <<>>
  /\ corrupt_metrics = <<>>
  /\ iterations = 0
  /\ initial_epoch = 0
  /\ epoch = 0
  /\ step = 0
  /\ datasets_to_evaluate = <<>>
  /\ ds_idx = 0
  /\ pc = "logits"
  /\ err = "none"
  /\ model_output = "none"
  /\ failed_step = "none"
  /\ processing = not_called
  /\ corrupt_accessed = FALSE
  /\ summaries = <<>>
  /\ saves = <<>>
  /\ hist = <<>>
  /\ call = no_call
  /\ ret = pending
  /\ environ = "unset"
  /\ tpu_system = no_tpu

\* _process_3d_logits_train(logits, routing_weights, labels), lines 329-358
Process3dLogitsTrain ==
  /\ pc = "logits"
  /\ processing_results = not_processed
  /\ processing_results' =
       process_3d_logits(tensors.logits, tensors.routing_weights,
                         tensors.labels)
  /\ train_return' =
       selected_values(FLAGS.loss, processing_results', tensors.labels)
  /\ UNCHANGED <<tensors, other_routing_weights, other_return>>
  /\ UNCHANGED <<mainvars, utilvars>>

\* a second call on the same logits and labels with routing weights of
\* its own
Process3dLogitsTrainOther ==
  /\ pc = "logits"
  /\ processing_results # not_processed
  /\ other_routing_weights = <<>>
  /\ \E w \in OtherRoutingWeights(Len(tensors.labels), FLAGS.num_experts) :
       /\ other_routing_weights' = w
       /\ other_return' =
            process_3d_logits_train_values(FLAGS.loss, tensors.logits, w,
                                           tensors.labels)
  /\ UNCHANGED <<tensors, processing_results, train_return>>
  /\ UNCHANGED <<mainvars, utilvars>>

NextLogits ==
  \/ Process3dLogitsTrain
  \/ Process3dLogitsTrainOther

SpecLogits == InitLogits /\ [][NextLogits]_vars

(***************************************************************************)
(* Properties of the aggregation arithmetic.                               *)
(***************************************************************************)
Processed == processing_results # not_processed

Examples == 1..Len(tensors.labels)

Experts == 1..FLAGS.num_experts

ClassIndices == 1..Cardinality(Classes)

RECURSIVE Sigma(_, _)
\* the sum of term[i] over the indices i of a finite set
Sigma(indices, term) ==
  IF indices = {} THEN whole(0)
  ELSE LET i == CHOOSE j \in indices : TRUE
       IN  plus(term[i], Sigma(indices \ {i}, term))

\* (1 / count) * x
OneOver(count, x) == times(frac(1, count), x)

\* the values of class c that the experts give to example b
LogitsOf(b, c) == [e \in Experts |-> whole(tensors.logits[b][e][c])]

ProbsOf(b, c) == [e \in Experts |-> softmax(tensors.logits[b][e])[c]]

\* the same values, each multiplied by the routing weight of its expert
Weighted(b, values) ==
  [e \in Experts |-> times(tensors.routing_weights[b][e], values[e])]

\* C11: the weighted aggregates returned by _process_3d_logits are means
\* over the expert axis, with the same reduction for logits and for
\* probabilities: weighted_logits = (1/num_experts) * sum_e w_e * logits_e
\* and weighted_probs = (1/num_experts) * sum_e w_e * probs_e, just as
\* unweighted_logits and unweighted_probs are (1/num_experts) * sum_e X_e.
C11_WeightedAggregatesAreMeans ==
  Processed =>
    \A b \in Examples : \A c \in ClassIndices :
      /\ processing_results.weighted_logits[b][c] =
           OneOver(FLAGS.num_experts,
                   Sigma(Experts, Weighted(b, LogitsOf(b, c))))
      /\ processing_results.weighted_probs[b][c] =
           OneOver(FLAGS.num_experts,
                   Sigma(Experts, Weighted(b, ProbsOf(b, c))))
      /\ processing_results.unweighted_logits[b][c] =
           OneOver(FLAGS.num_experts, Sigma(Experts, LogitsOf(b, c)))
      /\ processing_results.unweighted_probs[b][c] =
           OneOver(FLAGS.num_experts, Sigma(Experts, ProbsOf(b, c)))

UnweightedLosses == {"unweighted_gibbs_ce", "unweighted_moe", "unweighted_poe"}

\* the second call has been made
CalledTwice == other_routing_weights # <<>>

\* C12: for the losses unweighted_gibbs_ce, unweighted_moe and
\* unweighted_poe the outcome of _process_3d_logits_train does not depend
\* on the routing weights: a second call with the same logits and labels
\* and other routing weights has the same outcome as the first, the same
\* probs and negative log-likelihood or the same exception; the
\* unweighted_logits that the unweighted_poe branch reads are the same in
\* both calls as well.
C12_UnweightedLossesIgnoreRouting ==
  (CalledTwice /\ FLAGS.loss \in UnweightedLosses) =>
    /\ other_return = train_return
    /\ process_3d_logits(tensors.logits, other_routing_weights,
                         tensors.labels).unweighted_logits
         = processing_results.unweighted_logits

\* two calls that return, with routing weights that give different
\* weighted probabilities
C12_Witness ==
  /\ CalledTwice
  /\ FLAGS.loss = "unweighted_moe"
  /\ other_return.err = "none"
  /\ other_routing_weights # tensors.routing_weights
  /\ process_3d_logits(tensors.logits, other_routing_weights,
                       tensors.labels).weighted_probs
       # processing_results.weighted_probs

\* the routing weights of every example are 1/num_experts for every expert
UniformRouting ==
  \A b \in Examples : \A e \in Experts :
    tensors.routing_weights[b][e] = frac(1, FLAGS.num_experts)

\* C13: the Gibbs cross-entropy averages the per-expert cross-entropies:
\* neg_log_likelihoods[b][e] is the cross-entropy of expert e's logits
\* against the label of example b, unweighted_gibbs_ce is their mean over
\* all (example, expert) pairs, weighted_gibbs_ce is the batch mean of
\* sum_e w_e * nll_e, and when every routing weight is 1/num_experts the
\* two are equal.
C13_GibbsCrossEntropy ==
  Processed =>
    LET nll == processing_results.neg_log_likelihoods
        batch_size == Len(tensors.labels)
    IN  /\ \A b \in Examples : \A e \in Experts :
             nll[b][e] =
               sparse_categorical_crossentropy(tensors.labels[b],
                                               tensors.logits[b][e])
        /\ processing_results.unweighted_gibbs_ce =
             OneOver(batch_size * FLAGS.num_experts,
                     Sigma(Examples,
                           [b \in Examples |-> Sigma(Experts, nll[b])]))
        /\ processing_results.weighted_gibbs_ce =
             OneOver(batch_size,
                     Sigma(Examples,
                           [b \in Examples |->
                              Sigma(Experts, Weighted(b, nll[b]))]))
        /\ UniformRouting =>
             processing_results.weighted_gibbs_ce =
               processing_results.unweighted_gibbs_ce

\* a batch of two examples routed uniformly whose experts disagree on
\* every example: the combined prediction unweighted_probs gives each
\* label the probability 1/2, whose cross-entropy is log 2, one unit,
\* and the Gibbs cross-entropy is another number
C13_Witness ==
  /\ Processed
  /\ Len(tensors.labels) = 2
  /\ UniformRouting
  /\ \A b \in Examples :
       /\ processing_results.neg_log_likelihoods[b][1]
            # processing_results.neg_log_likelihoods[b][2]
       /\ processing_results.unweighted_probs[b][tensors.labels[b] + 1]
            = frac(1, 2)
  /\ processing_results.weighted_gibbs_ce =
       processing_results.unweighted_gibbs_ce
  /\ processing_results.unweighted_gibbs_ce # whole(1)

====
